---- MODULE Spec2Model ----
(***************************************************************************)
(* A model of mp3cator: the OGG -> MP3 batch converter.                    *)
(*                                                                         *)
(* Strings are sequences of one-character strings, so that the path and    *)
(* name computations (splitext, lower, endswith, to_camel_case) are        *)
(* computed character by character, as the Python code computes them.      *)
(* A path is a sequence of segments (directories, then the file name);     *)
(* the filesystem is the set of paths of the files that exist.             *)
(***************************************************************************)
EXTENDS Integers, Sequences, FiniteSets, TLC

(***************************************************************************)
(* Characters and strings                                                  *)
(***************************************************************************)
UpperLetters == <<"A","B","C","D","E","F","G","H","I","J","K","L","M",
                  "N","O","P","Q","R","S","T","U","V","W","X","Y","Z">>

LowerLetters == <<"a","b","c","d","e","f","g","h","i","j","k","l","m",
                  "n","o","p","q","r","s","t","u","v","w","x","y","z">>

Digits == {"0","1","2","3","4","5","6","7","8","9"}

UpperSet == {UpperLetters[i] : i \in DOMAIN UpperLetters}

LowerSet == {LowerLetters[i] : i \in DOMAIN LowerLetters}

\* the lower-case letter of each upper-case letter, and the reverse
ToLowerTable ==
    [c \in UpperSet |->
        LowerLetters[CHOOSE i \in DOMAIN UpperLetters : UpperLetters[i] = c]]

ToUpperTable ==
    [c \in LowerSet |->
        UpperLetters[CHOOSE i \in DOMAIN LowerLetters : LowerLetters[i] = c]]

IsUpper(c) == c \in UpperSet

IsLower(c) == c \in LowerSet

IsDigit(c) == c \in Digits

\* the character class [a-zA-Z0-9]
IsAlnum(c) == IsUpper(c) \/ IsLower(c) \/ IsDigit(c)

LowerChar(c) == IF IsUpper(c) THEN ToLowerTable[c] ELSE c

UpperChar(c) == IF IsLower(c) THEN ToUpperTable[c] ELSE c

\* str.lower()
StrLower(s) == [i \in DOMAIN s |-> LowerChar(s[i])]

\* str.capitalize(): first character upper-cased, the rest lower-cased
StrCapitalize(s) ==
    [i \in DOMAIN s |-> IF i = 1 THEN UpperChar(s[i]) ELSE LowerChar(s[i])]

\* str.endswith(suffix)
EndsWith(s, suffix) ==
    /\ Len(suffix) <= Len(s)
    /\ SubSeq(s, Len(s) - Len(suffix) + 1, Len(s)) = suffix

\* str.lstrip('.')
RECURSIVE LStripDots(_)
LStripDots(s) ==
    IF s # <<>> /\ Head(s) = "." THEN LStripDots(Tail(s)) ELSE s

\* ''.join(words)
RECURSIVE Concat(_)
Concat(words) ==
    IF words = <<>> THEN <<>> ELSE Head(words) \o Concat(Tail(words))

(***************************************************************************)
(* core/utils.py: to_camel_case                                            *)
(***************************************************************************)
\* re.sub(r'[^a-zA-Z0-9]+', ' ', text): every maximal run of characters
\* outside [a-zA-Z0-9] becomes one space
RECURSIVE ReSubNonAlnum(_)
ReSubNonAlnum(text) ==
    IF text = <<>> THEN <<>>
    ELSE IF IsAlnum(Head(text)) THEN <<Head(text)>> \o ReSubNonAlnum(Tail(text))
    ELSE IF Len(text) >= 2 /\ ~IsAlnum(text[2]) THEN ReSubNonAlnum(Tail(text))
    ELSE <<" ">> \o ReSubNonAlnum(Tail(text))

\* str.strip() of a string whose only whitespace is the space character
RECURSIVE StrStrip(_)
StrStrip(s) ==
    IF s = <<>> THEN <<>>
    ELSE IF Head(s) = " " THEN StrStrip(Tail(s))
    ELSE IF s[Len(s)] = " " THEN StrStrip(SubSeq(s, 1, Len(s) - 1))
    ELSE s

\* str.split(' '): the pieces between single spaces
RECURSIVE SplitSpace(_, _)
SplitSpace(s, cur) ==
    IF s = <<>> THEN <<cur>>
    ELSE IF Head(s) = " " THEN <<cur>> \o SplitSpace(Tail(s), <<>>)
    ELSE SplitSpace(Tail(s), Append(cur, Head(s)))

\* words joined as they are, without capitalize()
CapitalizeNone(words) == words

\* [x.capitalize() for x in words]
CapitalizeAll(words) == [i \in DOMAIN words |-> StrCapitalize(words[i])]

to_camel_case(text) ==
    LET s == StrStrip(ReSubNonAlnum(text))
        words == SplitSpace(s, <<>>)
    IN  IF s = <<>> THEN <<>>
        ELSE StrLower(words[1]) \o Concat(CapitalizeAll(Tail(words)))

(***************************************************************************)
(* os.path helpers, on paths given as sequences of segments                *)
(***************************************************************************)
\* the index of the last "." of a name, 0 when there is none
LastDot(name) ==
    IF \E i \in DOMAIN name : name[i] = "."
    THEN CHOOSE i \in DOMAIN name :
            name[i] = "." /\ \A j \in DOMAIN name : name[j] = "." => j <= i
    ELSE 0

\* os.path.splitext(name): the part before the last dot and the extension from
\* that dot on; a name whose last dot has only dots before it has no extension
SplitExt(name) ==
    LET d == LastDot(name)
    IN  IF d > 0 /\ \E j \in 1..(d - 1) : name[j] # "."
        THEN <<SubSeq(name, 1, d - 1), SubSeq(name, d, Len(name))>>
        ELSE <<name, <<>>>>

\* os.path.basename(path)
Basename(path) == path[Len(path)]

\* os.path.dirname(path)
Dirname(path) == SubSeq(path, 1, Len(path) - 1)

\* os.path.splitext(os.path.basename(f))[0]
Stem(path) == SplitExt(Basename(path))[1]

\* path lies under the directory root
IsUnder(path, root) ==
    /\ Len(path) > Len(root)
    /\ SubSeq(path, 1, Len(root)) = root

\* os.path.relpath(path, root).split(os.sep), for a path under root
RelComponents(path, root) == SubSeq(path, Len(root) + 1, Len(path))

\* os.path.join(base, *parts): an empty part adds no segment
RECURSIVE PathJoin(_, _)
PathJoin(base, parts) ==
    IF parts = <<>> THEN base
    ELSE IF Head(parts) = <<>> THEN PathJoin(base, Tail(parts))
    ELSE PathJoin(Append(base, Head(parts)), Tail(parts))

DotMp3 == <<".", "m", "p", "3">>

\* a Restructure folder named in lower case
RSFolderLower == <<"r", "s">>

RSFolder == <<"R", "S">>

\* output_dir = None
NoDir == <<>>

(***************************************************************************)
(* core/utils.py: get_mp3_path and its two helpers                         *)
(***************************************************************************)
get_custom_output_path(ogg_path, root_path, output_dir) ==
    LET path_components == RelComponents(ogg_path, root_path)
        n == Len(path_components)
        original_basename == SplitExt(path_components[n])[1]
        new_filename == original_basename \o DotMp3
    IN  PathJoin(output_dir, Append(SubSeq(path_components, 1, n - 1), new_filename))

get_restructured_path(ogg_path, root_path) ==
    LET path_components == RelComponents(ogg_path, root_path)
        n == Len(path_components)
        camel_cased_dirs == [i \in 1..(n - 1) |-> to_camel_case(path_components[i])]
        original_basename == SplitExt(path_components[n])[1]
        new_filename == to_camel_case(original_basename) \o DotMp3
        new_base == PathJoin(root_path, <<RSFolder>>)
    IN  PathJoin(new_base, Append(camel_cased_dirs, new_filename))

InPlacePath(ogg_path) ==
    Append(Dirname(ogg_path), SplitExt(Basename(ogg_path))[1] \o DotMp3)

get_mp3_path(ogg_path, root_path, restructure, output_dir) ==
    IF output_dir # NoDir THEN get_custom_output_path(ogg_path, root_path, output_dir)
    ELSE IF ~restructure THEN InPlacePath(ogg_path)
    ELSE get_restructured_path(ogg_path, root_path)

(***************************************************************************)
(* The directory trees and argument values the model explores              *)
(***************************************************************************)
\* the scan root /r, the custom output directory /o, a path that is no directory
RootPath == << <<"r">> >>

OutDir == << <<"o">> >>

NotADir == << <<"x">> >>

OggS == <<"s", ".", "o", "g", "g">>

OggTT == <<"t", " ", "t", ".", "o", "g", "g">>

Mp3S == <<"s", ".", "m", "p", "3">>

Mp3TT == <<"t", " ", "t", ".", "m", "p", "3">>

Mp3Camel == <<"t", "T", ".", "m", "p", "3">>

\* the source files: the stem "s" occurs in two directories
SrcA == RootPath \o << <<"A">>, OggS >>

SrcB == RootPath \o << <<"B">>, OggS >>

SrcT == RootPath \o << <<"A">>, OggTT >>

Sources == {SrcA, SrcB, SrcT}

OggUpperS == <<"s", ".", "O", "G", "G">>

OggTDashT == <<"t", "-", "t", ".", "o", "g", "g">>

Mp3TDashT == <<"t", "-", "t", ".", "m", "p", "3">>

\* source files whose names differ from SrcA's in the case of the extension
\* only, and from SrcT's in the punctuation only
SrcU == RootPath \o << <<"A">>, OggUpperS >>

SrcD == RootPath \o << <<"A">>, OggTDashT >>

CollidingSources == {SrcU, SrcD}

\* every path of the model, in the order os.walk lists the files of the root
\* (the files of /o are outside the root)
WalkOrder ==
    << SrcA,
       SrcU,
       RootPath \o << <<"A">>, Mp3S >>,
       SrcT,
       RootPath \o << <<"A">>, Mp3TT >>,
       SrcD,
       RootPath \o << <<"A">>, Mp3TDashT >>,
       SrcB,
       RootPath \o << <<"B">>, Mp3S >>,
       RootPath \o << RSFolder, <<"a">>, Mp3S >>,
       RootPath \o << RSFolder, <<"a">>, Mp3Camel >>,
       RootPath \o << RSFolder, <<"b">>, Mp3S >>,
       OutDir \o << <<"A">>, Mp3S >>,
       OutDir \o << <<"A">>, Mp3TT >>,
       OutDir \o << <<"A">>, Mp3TDashT >>,
       OutDir \o << <<"B">>, Mp3S >> >>

SeqToSet(s) == {s[i] : i \in DOMAIN s}

Universe == SeqToSet(WalkOrder)

Targets == Universe \ (Sources \cup CollidingSources)

\* the directories above a path, the root directory "/" excluded
Ancestors(path) == {SubSeq(path, 1, k) : k \in 1..(Len(path) - 1)}

\* a directory and the directories above it: what os.makedirs leaves behind
WithAncestors(dir) == {SubSeq(dir, 1, k) : k \in 1..Len(dir)}

DirsOf(files) == {RootPath} \cup UNION {Ancestors(f) : f \in files}

\* the largest --threads value explored
MaxThreads == 2

\* ThreadPoolExecutor's default max_workers, min(32, cpu_count + 4), on a one-core host
DefaultMaxWorkers == 5

\* --threads: <<>> when absent (None), <<n>> when given
ThreadChoices == {<<>>} \cup {<<n>> : n \in 0..MaxThreads}

BitrateChoices == { <<"3", "2", "0", "k">>, <<"3", "2", "0">> }

Dependencies == {"ffmpeg", "ffprobe"}

\* signal.SIGINT
SIGINT == 2

\* the status argparse's parser.error exits with
ArgparseErrorStatus == 2

VARIABLES
    args,            \* the parsed command line
    installed,       \* the executables shutil.which finds
    fs,              \* the files that exist
    dirs,            \* the directories that exist
    initial,         \* fs and dirs when the process started
    pc,              \* the main thread's position in main()
    exit_code,       \* the process exit status, meaningful once pc = "exited"
    ended,           \* how the run ended
    interrupted,     \* SIGINT was delivered: SystemExit(130) is propagating
    walks,           \* the number of os.walk traversals made so far
    scan,            \* the result of identify_files_for_conversion
    task,            \* the state of each candidate's future
    queue,           \* the executor's work queue (candidate indices, FIFO)
    collected,       \* the futures the as_completed loop has handled
    results,         \* main's list of results
    pbar,            \* the progress bar's count
    errors,          \* the candidates reported by "Error processing ..."
    converted_count, \* sum(results), once the summary is printed
    post,            \* what perform_post_check found and did
    rescan,          \* the result of a second identify_files_for_conversion
    text,            \* a name given to to_camel_case
    folder,          \* the directory of a source file named after text
    camel,           \* the result of to_camel_case(text)
    mp3_path         \* the result of get_mp3_path for that source file

vars == <<args, installed, fs, dirs, initial, pc, exit_code, ended, interrupted,
          walks, scan, task, queue, collected, results, pbar, errors,
          converted_count, post, rescan, text, folder, camel, mp3_path>>

\* the variables of the name computations, which main() leaves alone
names == <<text, folder, camel, mp3_path>>

(***************************************************************************)
(* core/finder.py                                                          *)
(***************************************************************************)
\* os.path.exists
PathExists(path) == path \in fs \/ path \in dirs

\* os.path.isdir
IsDir(path) == path \in dirs

\* f".{extension.lower().lstrip('.')}"
NormalizedExt(extension) == <<".">> \o LStripDots(StrLower(extension))

find_files(root_path, extension) ==
    SelectSeq(WalkOrder,
              LAMBDA p : /\ p \in fs
                         /\ IsUnder(p, root_path)
                         /\ EndsWith(StrLower(Basename(p)), NormalizedExt(extension)))

\* the candidates by the expected output path of each source file
ExpectedPathCandidates(root_path, source_ext, restructure, output_dir) ==
    SelectSeq(find_files(root_path, source_ext),
              LAMBDA f : ~PathExists(get_mp3_path(f, root_path, restructure, output_dir)))

\* the candidates by the set of the stems of the target files
StemSetCandidates(root_path, source_ext, target_ext) ==
    LET target_basenames == {Stem(f) : f \in SeqToSet(find_files(root_path, target_ext))}
    IN  SelectSeq(find_files(root_path, source_ext),
                  LAMBDA f : Stem(f) \notin target_basenames)

\* a finder whose list of source files is a generator that the first traversal
\* of the tree has used up
identify_files_generator(root_path, source_ext, target_ext, restructure, output_dir) ==
    LET source_files == IF walks = 0 THEN find_files(root_path, source_ext) ELSE <<>>
        files_to_convert ==
            IF walks # 0 THEN <<>>
            ELSE IF ~restructure /\ output_dir = NoDir
            THEN StemSetCandidates(root_path, source_ext, target_ext)
            ELSE ExpectedPathCandidates(root_path, source_ext, restructure, output_dir)
    IN  [files |-> files_to_convert,
         total |-> Len(source_files),
         skipped |-> Len(source_files) - Len(files_to_convert)]

identify_files_for_conversion(root_path, source_ext, target_ext, restructure, output_dir) ==
    LET source_files == find_files(root_path, source_ext)
        files_to_convert ==
            IF ~restructure /\ output_dir = NoDir
            THEN StemSetCandidates(root_path, source_ext, target_ext)
            ELSE ExpectedPathCandidates(root_path, source_ext, restructure, output_dir)
    IN  [files |-> files_to_convert,
         total |-> Len(source_files),
         skipped |-> Len(source_files) - Len(files_to_convert)]

Ogg == <<"o", "g", "g">>

Mp3 == <<"m", "p", "3">>

(***************************************************************************)
(* core/postcheck.py                                                       *)
(***************************************************************************)
unconverted_files(root_path, restructure, output_dir) ==
    LET ogg_files == find_files(root_path, Ogg)
        mp3_basenames == {Stem(f) : f \in SeqToSet(find_files(root_path, Mp3))}
    IN  SelectSeq(ogg_files,
                  LAMBDA f :
                      IF restructure \/ output_dir # NoDir
                      THEN ~PathExists(get_mp3_path(f, root_path, restructure, output_dir))
                      ELSE Stem(f) \notin mp3_basenames)

\* a gate that does not look at delete_originals
DeletionIgnoresFlag(unconverted, delete_originals, ogg_files) ==
    unconverted = <<>> /\ ogg_files # <<>>

\* the gate of the deletion loop
DeletionProceeds(unconverted, delete_originals, ogg_files) ==
    unconverted = <<>> /\ delete_originals /\ ogg_files # <<>>

NoDeletion == [attempted |-> <<>>, removed |-> {}, failed |-> {}, deleted_count |-> 0]

\* a deletion loop that gives up at the first os.remove that raises
RECURSIVE delete_loop_stops(_, _)
delete_loop_stops(ogg_files, failing) ==
    IF ogg_files = <<>> THEN NoDeletion
    ELSE IF Head(ogg_files) \in failing
         THEN [NoDeletion EXCEPT !.attempted = <<Head(ogg_files)>>,
                                 !.failed = {Head(ogg_files)}]
    ELSE LET rest == delete_loop_stops(Tail(ogg_files), failing)
         IN  [attempted |-> <<Head(ogg_files)>> \o rest.attempted,
              removed |-> {Head(ogg_files)} \cup rest.removed,
              failed |-> rest.failed,
              deleted_count |-> rest.deleted_count + 1]

\* "for ogg_file in ogg_files: try: os.remove(ogg_file); deleted_count += 1
\* except OSError", with `failing` the files whose os.remove raises OSError
RECURSIVE delete_loop(_, _)
delete_loop(ogg_files, failing) ==
    IF ogg_files = <<>> THEN NoDeletion
    ELSE LET rest == delete_loop(Tail(ogg_files), failing)
             ogg_file == Head(ogg_files)
         IN  IF ogg_file \in failing
             THEN [rest EXCEPT !.attempted = <<ogg_file>> \o rest.attempted,
                               !.failed = {ogg_file} \cup rest.failed]
             ELSE [rest EXCEPT !.attempted = <<ogg_file>> \o rest.attempted,
                               !.removed = {ogg_file} \cup rest.removed,
                               !.deleted_count = rest.deleted_count + 1]

\* what perform_post_check found and did
PostCheckRecord(ogg_files, unconverted, deletion) ==
    [ran |-> TRUE,
     ogg_files |-> ogg_files,
     unconverted |-> unconverted,
     attempted |-> deletion.attempted,
     removed |-> deletion.removed,
     failed |-> deletion.failed,
     deleted_count |-> deletion.deleted_count]

\* perform_post_check, with `failing` the files whose os.remove raises OSError
perform_post_check(root_path, delete_originals, restructure, output_dir, failing) ==
    LET ogg_files == find_files(root_path, Ogg)
        unconverted == unconverted_files(root_path, restructure, output_dir)
    IN  PostCheckRecord(ogg_files, unconverted,
                        IF DeletionProceeds(unconverted, delete_originals, ogg_files)
                        THEN delete_loop(ogg_files, failing)
                        ELSE NoDeletion)

\* the outcomes of perform_post_check, over the os.remove calls that may fail
PostCheckOutcomes(root_path, delete_originals, restructure, output_dir) ==
    LET ogg_files == find_files(root_path, Ogg)
        unconverted == unconverted_files(root_path, restructure, output_dir)
    IN  IF DeletionProceeds(unconverted, delete_originals, ogg_files)
        THEN {PostCheckRecord(ogg_files, unconverted, delete_loop(ogg_files, failing)) :
                 failing \in SUBSET SeqToSet(ogg_files)}
        ELSE {PostCheckRecord(ogg_files, unconverted, NoDeletion)}

NoPost ==
    [ran |-> FALSE, ogg_files |-> <<>>, unconverted |-> <<>>, attempted |-> <<>>,
     removed |-> {}, failed |-> {}, deleted_count |-> 0]

NoScan == [files |-> <<>>, total |-> 0, skipped |-> 0]

(***************************************************************************)
(* ogg_to_mp3_converter.py: main()                                         *)
(***************************************************************************)
InitialTrees ==
    { {},
      Sources,
      {SrcA, SrcB, RootPath \o << <<"A">>, Mp3S >>},
      {SrcA, SrcU},
      {SrcT, SrcD},
      {SrcA, RootPath \o << <<"A">>, Mp3S >>,
             RootPath \o << RSFolder, <<"a">>, Mp3S >>,
             OutDir \o << <<"A">>, Mp3S >>} }

ArgChoices ==
    [folder_path : {RootPath, NotADir},
     bitrate : BitrateChoices,
     threads : ThreadChoices,
     post_check : BOOLEAN,
     delete : BOOLEAN,
     restructure : BOOLEAN,
     dry_run : BOOLEAN,
     output_dir : {NoDir, OutDir}]

InitRest ==
    /\ dirs = DirsOf(fs)
    /\ initial = [fs |-> fs, dirs |-> dirs]
    /\ exit_code = 0
    /\ ended = "running"
    /\ interrupted = FALSE
    /\ walks = 0
    /\ scan = NoScan
    /\ task = <<>>
    /\ queue = <<>>
    /\ collected = {}
    /\ results = <<>>
    /\ pbar = 0
    /\ errors = {}
    /\ converted_count = 0
    /\ post = NoPost
    /\ rescan = NoScan

\* no name computation is under way
NoNames ==
    /\ text = <<>>
    /\ folder = <<>>
    /\ camel = <<>>
    /\ mp3_path = <<>>

Init ==
    /\ args \in ArgChoices
    /\ installed \in SUBSET Dependencies
    /\ fs \in InitialTrees
    /\ pc = "parse"
    /\ InitRest
    /\ NoNames

\* sys.exit(code), parser.error(...) or the return of main()
Exit(code, how) ==
    /\ pc' = "exited"
    /\ exit_code' = code
    /\ ended' = how

\* validate_bitrate: re.match(r'^\d+k$', bitrate); "$" also matches before a
\* newline that ends the string. main() never calls it
validate_bitrate(bitrate) ==
    LET b == IF bitrate # <<>> /\ bitrate[Len(bitrate)] = "\n"
             THEN SubSeq(bitrate, 1, Len(bitrate) - 1)
             ELSE bitrate
    IN  /\ Len(b) >= 2
        /\ b[Len(b)] = "k"
        /\ \A i \in 1..(Len(b) - 1) : IsDigit(b[i])

\* a main() without the --delete / --post-check validation
DeleteWithoutPostCheckSkipped(a) == FALSE

\* "if args.delete and not args.post_check"
DeleteWithoutPostCheck(a) == a.delete /\ ~a.post_check

ParseArgs ==
    /\ pc = "parse"
    /\ IF DeleteWithoutPostCheck(args)
       THEN Exit(ArgparseErrorStatus, "usage")
       ELSE pc' = "outdir" /\ UNCHANGED <<exit_code, ended>>
    /\ UNCHANGED <<names, args, installed, fs, dirs, initial, interrupted, walks, scan, task,
                   queue, collected, results, pbar, errors, converted_count, post, rescan>>

\* "if args.output_dir:": os.makedirs may raise OSError, os.access may deny
PrepareOutputDir ==
    /\ pc = "outdir"
    /\ IF args.output_dir = NoDir
       THEN pc' = "deps" /\ UNCHANGED <<dirs, exit_code, ended>>
       ELSE \E outcome \in {"ok", "makedirs_fails", "not_writable"} :
              /\ dirs' = IF outcome = "makedirs_fails" THEN dirs
                         ELSE dirs \cup WithAncestors(args.output_dir)
              /\ IF outcome = "ok"
                 THEN pc' = "deps" /\ UNCHANGED <<exit_code, ended>>
                 ELSE Exit(ArgparseErrorStatus, "output_dir")
    /\ UNCHANGED <<names, args, installed, fs, initial, interrupted, walks, scan, task,
                   queue, collected, results, pbar, errors, converted_count, post, rescan>>

\* the executables shutil.which does not find
check_dependencies == Dependencies \ installed

CheckDependencies ==
    /\ pc = "deps"
    /\ IF check_dependencies # {}
       THEN Exit(1, "dependency")
       ELSE pc' = "scan" /\ UNCHANGED <<exit_code, ended>>
    /\ UNCHANGED <<names, args, installed, fs, dirs, initial, interrupted, walks, scan, task,
                   queue, collected, results, pbar, errors, converted_count, post, rescan>>

\* the os.walk traversals of one identify_files_for_conversion call
WalksOfIdentify(restructure, output_dir) ==
    IF ~restructure /\ output_dir = NoDir THEN 2 ELSE 1

Scan ==
    /\ pc = "scan"
    /\ IF ~IsDir(args.folder_path)
       THEN /\ Exit(1, "error")
            /\ UNCHANGED <<walks, scan, task>>
       ELSE LET r == identify_files_for_conversion(args.folder_path, Ogg, Mp3,
                                                   args.restructure, args.output_dir)
            IN  /\ scan' = r
                /\ walks' = walks + WalksOfIdentify(args.restructure, args.output_dir)
                /\ task' = [i \in 1..Len(r.files) |-> "new"]
                /\ IF r.total = 0 THEN Exit(0, "returned")
                   ELSE IF r.files # <<>>
                        THEN pc' = "pool" /\ UNCHANGED <<exit_code, ended>>
                   ELSE IF args.post_check
                        THEN pc' = "postcheck" /\ UNCHANGED <<exit_code, ended>>
                   ELSE Exit(0, "returned")
    /\ UNCHANGED <<names, args, installed, fs, dirs, initial, interrupted, queue, collected,
                   results, pbar, errors, converted_count, post, rescan>>

\* ThreadPoolExecutor(max_workers=args.threads) raises ValueError for a value <= 0
CreatePool ==
    /\ pc = "pool"
    /\ IF args.threads # <<>> /\ args.threads[1] <= 0
       THEN Exit(1, "error")
       ELSE pc' = "submit" /\ UNCHANGED <<exit_code, ended>>
    /\ UNCHANGED <<names, args, installed, fs, dirs, initial, interrupted, walks, scan, task,
                   queue, collected, results, pbar, errors, converted_count, post, rescan>>

NumCandidates == Len(scan.files)

\* executor.submit(convert_file, ogg) for the next candidate of the list
SubmitNext ==
    /\ pc = "submit"
    /\ LET k == CHOOSE i \in 1..NumCandidates :
                    task[i] = "new" /\ \A j \in 1..(i - 1) : task[j] # "new"
       IN  /\ task' = [task EXCEPT ![k] = "queued"]
           /\ queue' = Append(queue, k)
           /\ pc' = IF k = NumCandidates THEN "collect" ELSE "submit"
    /\ UNCHANGED <<names, args, installed, fs, dirs, initial, exit_code, ended, interrupted,
                   walks, scan, collected, results, pbar, errors, converted_count,
                   post, rescan>>

Running == {i \in 1..NumCandidates : task[i] = "running"}

\* how a call of convert_file can go: the conversion succeeds; the source cannot
\* be decoded (CouldntDecodeError); any other exception is raised inside
\* convert()'s try block; an exception is raised outside of it (building the
\* converter, or in an except handler of convert())
ConversionEvents == {"converted", "decode_error", "convert_error", "task_error"}

Finished == {i \in 1..NumCandidates : task[i] \in ConversionEvents}

\* max_workers of the executor
PoolSize == IF args.threads = <<>> THEN DefaultMaxWorkers ELSE args.threads[1]

\* a pool that starts a thread for every work item
WorkerAlwaysAvailable == TRUE

\* a worker thread of the pool is free to take the next work item
WorkerAvailable == Cardinality(Running) < PoolSize

\* a converter that ignores the output policy and always writes beside the source
ConverterMp3PathInPlace(ogg_path) ==
    get_mp3_path(ogg_path, args.folder_path, FALSE, NoDir)

\* OggToMp3Converter.__init__: self.mp3_path
ConverterMp3Path(ogg_path) ==
    get_mp3_path(ogg_path, args.folder_path, args.restructure, args.output_dir)

\* convert(): "if self.restructure or self.output_dir: os.makedirs(...)"
MakedirsOfConvert(ogg_path) ==
    IF args.restructure \/ args.output_dir # NoDir
    THEN WithAncestors(Dirname(ConverterMp3Path(ogg_path)))
    ELSE {}

\* a worker takes the head of the work queue and calls convert_file on it:
\* the converter is built and convert() makes the destination directory
StartTask ==
    /\ pc \in {"submit", "collect", "shutdown"}
    /\ queue # <<>>
    /\ WorkerAvailable
    /\ task' = [task EXCEPT ![Head(queue)] = "running"]
    /\ queue' = Tail(queue)
    /\ dirs' = dirs \cup MakedirsOfConvert(scan.files[Head(queue)])
    /\ UNCHANGED <<names, args, installed, fs, initial, pc, exit_code, ended, interrupted,
                   walks, scan, collected, results, pbar, errors, converted_count,
                   post, rescan>>

\* convert_file(ogg) ends; a conversion that succeeds has written its output
FinishTask(k) ==
    /\ task[k] = "running"
    /\ \E event \in ConversionEvents :
          /\ task' = [task EXCEPT ![k] = event]
          /\ fs' = IF event = "converted"
                   THEN fs \cup {ConverterMp3Path(scan.files[k])}
                   ELSE fs
    /\ UNCHANGED <<names, args, installed, dirs, initial, pc, exit_code, ended, interrupted,
                   walks, scan, queue, collected, results, pbar, errors,
                   converted_count, post, rescan>>

\* a convert() without its "except Exception" clause
convert_file_uncaught(event) ==
    IF event = "converted" THEN "true"
    ELSE IF event = "decode_error" THEN "false"
    ELSE "raised"

\* what future.result() gives for convert_file: convert() returns True, or
\* catches the exception and returns False; an exception convert() does not
\* catch is raised again by future.result()
convert_file(event) ==
    IF event = "converted" THEN "true"
    ELSE IF event \in {"decode_error", "convert_error"} THEN "false"
    ELSE "raised"

\* the try/except around future.result(): a result is appended, an exception is not
CollectResult(outcome, res) ==
    IF outcome = "raised" THEN res ELSE Append(res, outcome = "true")

\* one iteration of the as_completed loop
CollectOne(k) ==
    /\ pc = "collect"
    /\ k \in Finished \ collected
    /\ results' = CollectResult(convert_file(task[k]), results)
    /\ errors' = IF convert_file(task[k]) = "raised" THEN errors \cup {k} ELSE errors
    /\ pbar' = pbar + 1
    /\ collected' = collected \cup {k}
    /\ pc' = IF collected' = 1..NumCandidates THEN "summary" ELSE "collect"
    /\ UNCHANGED <<names, args, installed, fs, dirs, initial, exit_code, ended, interrupted,
                   walks, scan, task, queue, converted_count, post, rescan>>

\* sum(results)
RECURSIVE SumResults(_)
SumResults(res) ==
    IF res = <<>> THEN 0
    ELSE (IF Head(res) THEN 1 ELSE 0) + SumResults(Tail(res))

\* a main() that goes on to the summary without waiting for every future
SummaryEarly ==
    /\ pc \in {"collect", "summary"}
    /\ converted_count' = SumResults(results)
    /\ IF args.post_check
       THEN pc' = "postcheck" /\ UNCHANGED <<exit_code, ended>>
       ELSE Exit(0, "returned")
    /\ UNCHANGED <<names, args, installed, fs, dirs, initial, interrupted, walks, scan,
                   task, queue, collected, results, pbar, errors, post, rescan>>

Summary ==
    /\ pc = "summary"
    /\ converted_count' = SumResults(results)
    /\ IF args.post_check
       THEN pc' = "postcheck" /\ UNCHANGED <<exit_code, ended>>
       ELSE Exit(0, "returned")
    /\ UNCHANGED <<names, args, installed, fs, dirs, initial, interrupted, walks, scan, task,
                   queue, collected, results, pbar, errors, post, rescan>>

\* PostCheck.perform_post_check(...), then main returns
PostCheck ==
    /\ pc = "postcheck"
    /\ \E r \in PostCheckOutcomes(args.folder_path, args.delete, args.restructure,
                                  args.output_dir) :
          /\ post' = r
          /\ fs' = fs \ r.removed
    /\ walks' = walks + 2
    /\ Exit(0, "returned")
    /\ UNCHANGED <<names, args, installed, dirs, initial, interrupted, scan, task, queue,
                   collected, results, pbar, errors, converted_count, rescan>>

\* a handler that ends the process as if the run had completed
signal_handler_status_zero(signum) == 0

\* the status signal_handler exits with
signal_handler_status(signum) == 128 + signum

\* SIGINT: signal_handler calls sys.exit(128 + signum) in the main thread. Inside
\* "with ThreadPoolExecutor(...)" the SystemExit first runs the executor's
\* __exit__, shutdown(wait=True)
Interrupt ==
    /\ pc \notin {"exited", "shutdown"}
    /\ interrupted' = TRUE
    /\ IF pc \in {"submit", "collect"}
       THEN pc' = "shutdown" /\ UNCHANGED <<exit_code, ended>>
       ELSE Exit(signal_handler_status(SIGINT), "interrupt")
    /\ UNCHANGED <<names, args, installed, fs, dirs, initial, walks, scan, task, queue,
                   collected, results, pbar, errors, converted_count, post, rescan>>

\* a conversion loop that swallows the handler's SystemExit and goes on to
\* the summary
ShutdownSwallowed ==
    /\ pc = "shutdown"
    /\ queue = <<>>
    /\ Running = {}
    /\ pc' = "summary"
    /\ UNCHANGED <<names, args, installed, fs, dirs, initial, exit_code, ended,
                   interrupted, walks, scan, task, queue, collected, results, pbar,
                   errors, converted_count, post, rescan>>

\* shutdown(wait=True) returns once the workers have ended: the queue is empty
\* and no task runs
ShutdownDone ==
    /\ pc = "shutdown"
    /\ queue = <<>>
    /\ Running = {}
    /\ Exit(signal_handler_status(SIGINT), "interrupt")
    /\ UNCHANGED <<names, args, installed, fs, dirs, initial, interrupted, walks, scan, task,
                   queue, collected, results, pbar, errors, converted_count, post, rescan>>

Next ==
    \/ ParseArgs
    \/ PrepareOutputDir
    \/ CheckDependencies
    \/ Scan
    \/ CreatePool
    \/ SubmitNext
    \/ StartTask
    \/ \E k \in 1..NumCandidates : FinishTask(k)
    \/ \E k \in 1..NumCandidates : CollectOne(k)
    \/ Summary
    \/ PostCheck
    \/ Interrupt
    \/ ShutdownDone

Spec == Init /\ [][Next]_vars

(***************************************************************************)
(* The discovery, a conversion of every candidate and the post-check,      *)
(* applied in sequence to every directory tree over the model's paths      *)
(***************************************************************************)
ScanArgChoices ==
    {a \in ArgChoices : /\ a.folder_path = RootPath
                        /\ a.bitrate = <<"3", "2", "0", "k">>
                        /\ a.threads = <<1>>
                        /\ a.post_check
                        /\ ~a.dry_run
                        /\ ~(a.restructure /\ a.output_dir # NoDir)}

\* the paths of the trees explored: SrcD and its own outputs are left out
ScanUniverse ==
    Universe \ {SrcD, RootPath \o << <<"A">>, Mp3TDashT >>,
                      OutDir \o << <<"A">>, Mp3TDashT >>}

\* the trees explored with the arguments a: any set of these paths, with
\* files in /o only when /o is the output directory, and then none in /r/RS
ScanTrees(a) ==
    {t \in SUBSET ScanUniverse :
        IF a.output_dir = NoDir
        THEN \A f \in t : IsUnder(f, RootPath)
        ELSE \A f \in t : ~IsUnder(f, Append(RootPath, RSFolder))}

InitScan ==
    /\ args \in ScanArgChoices
    /\ installed = Dependencies
    /\ fs \in ScanTrees(args)
    /\ pc = "discover"
    /\ dirs = DirsOf(fs) \cup WithAncestors(args.output_dir)
    /\ initial = [fs |-> fs, dirs |-> dirs]
    /\ exit_code = 0
    /\ ended = "running"
    /\ interrupted = FALSE
    /\ walks = 0
    /\ scan = NoScan
    /\ task = <<>>
    /\ queue = <<>>
    /\ collected = {}
    /\ results = <<>>
    /\ pbar = 0
    /\ errors = {}
    /\ converted_count = 0
    /\ post = NoPost
    /\ rescan = NoScan
    /\ NoNames

\* finder.identify_files_for_conversion("ogg", "mp3", ...)
Discover ==
    /\ pc = "discover"
    /\ scan' = identify_files_for_conversion(args.folder_path, Ogg, Mp3,
                                             args.restructure, args.output_dir)
    /\ task' = [i \in 1..Len(scan'.files) |-> "new"]
    /\ walks' = walks + WalksOfIdentify(args.restructure, args.output_dir)
    /\ pc' = "converting"
    /\ UNCHANGED <<names, args, installed, fs, dirs, initial, exit_code, ended, interrupted,
                   queue, collected, results, pbar, errors, converted_count, post,
                   rescan>>

\* the next candidate is converted and convert() returns True
ConvertNext ==
    /\ pc = "converting"
    /\ \E k \in 1..NumCandidates :
          /\ task[k] = "new"
          /\ \A j \in 1..(k - 1) : task[j] # "new"
          /\ task' = [task EXCEPT ![k] = "converted"]
          /\ dirs' = dirs \cup MakedirsOfConvert(scan.files[k])
          /\ fs' = fs \cup {ConverterMp3Path(scan.files[k])}
    /\ UNCHANGED <<names, args, installed, initial, pc, exit_code, ended, interrupted, walks,
                   scan, queue, collected, results, pbar, errors, converted_count,
                   post, rescan>>

\* identify_files_for_conversion again, once every candidate is converted
Rediscover ==
    /\ pc = "converting"
    /\ \A k \in 1..NumCandidates : task[k] = "converted"
    /\ rescan' = identify_files_for_conversion(args.folder_path, Ogg, Mp3,
                                               args.restructure, args.output_dir)
    /\ walks' = walks + WalksOfIdentify(args.restructure, args.output_dir)
    /\ pc' = "rediscovered"
    /\ UNCHANGED <<names, args, installed, fs, dirs, initial, exit_code, ended, interrupted,
                   scan, task, queue, collected, results, pbar, errors,
                   converted_count, post>>

\* identify_files_for_conversion again, straight after the first call
DiscoverAgain ==
    /\ pc = "converting"
    /\ \A k \in 1..NumCandidates : task[k] = "new"
    /\ rescan' = identify_files_for_conversion(args.folder_path, Ogg, Mp3,
                                               args.restructure, args.output_dir)
    /\ walks' = walks + WalksOfIdentify(args.restructure, args.output_dir)
    /\ pc' = "discovered_twice"
    /\ UNCHANGED <<names, args, installed, fs, dirs, initial, exit_code, ended,
                   interrupted, scan, task, queue, collected, results, pbar, errors,
                   converted_count, post>>

\* PostCheck.perform_post_check(...) on the tree as it is
Verify ==
    /\ pc = "converting"
    /\ \E r \in PostCheckOutcomes(args.folder_path, args.delete, args.restructure,
                                  args.output_dir) :
          /\ post' = r
          /\ fs' = fs \ r.removed
    /\ walks' = walks + 2
    /\ pc' = "verified"
    /\ UNCHANGED <<names, args, installed, dirs, initial, exit_code, ended, interrupted, scan,
                   task, queue, collected, results, pbar, errors, converted_count,
                   rescan>>

NextScan ==
    \/ Discover
    \/ ConvertNext
    \/ Rediscover
    \/ DiscoverAgain
    \/ Verify

ScanSpec == InitScan /\ [][NextScan]_vars

(***************************************************************************)
(* to_camel_case and the Restructure path of one source file, applied to   *)
(* every short name over a small alphabet and to the documented examples    *)
(***************************************************************************)
\* the longest name drawn from the alphabet
NameMaxLen == 3

NameAlphabet == {"a", "B", "7", " ", "."}

StringsUpTo(n) == UNION {[1..k -> NameAlphabet] : k \in 0..n}

ExampleSong == <<"0", "1", " ", "-", " ", "M", "y", " ", "A", "w", "e", "s", "o", "m", "e", " ", "S", "o", "n", "g">>

ExampleHello == <<"h", "e", "l", "l", "o", " ", "w", "o", "r", "l", "d">>

ExampleTrack == <<"T", "r", "a", "c", "k", " ", "0", "1">>

ExampleAlbum == <<"A", "l", "b", "u", "m">>

ExampleNames == {ExampleSong, ExampleHello, ExampleTrack, ExampleAlbum}

Names == StringsUpTo(NameMaxLen) \cup ExampleNames

FolderNames == {ExampleAlbum, <<"A", " ", "b">>, <<"-">>}

\* the root /root
ExampleRoot == << <<"r", "o", "o", "t">> >>

DotOgg == <<".", "o", "g", "g">>

\* the source file <root>/<folder>/<text>.ogg
NameOggPath == ExampleRoot \o <<folder, text \o DotOgg>>

InitNames ==
    /\ text \in Names
    /\ folder \in FolderNames
    /\ camel = <<>>
    /\ mp3_path = <<>>
    /\ args = [folder_path |-> ExampleRoot, bitrate |-> <<"3", "2", "0", "k">>,
               threads |-> <<>>, post_check |-> FALSE, delete |-> FALSE,
               restructure |-> TRUE, dry_run |-> FALSE, output_dir |-> NoDir]
    /\ installed = Dependencies
    /\ fs = {}
    /\ pc = "name"
    /\ InitRest

\* to_camel_case(text)
CamelCase ==
    /\ pc = "name"
    /\ camel' = to_camel_case(text)
    /\ pc' = "cased"
    /\ UNCHANGED <<text, folder, mp3_path, args, installed, fs, dirs, initial,
                   exit_code, ended, interrupted, walks, scan, task, queue, collected,
                   results, pbar, errors, converted_count, post, rescan>>

\* get_mp3_path(ogg_path, root_path, restructure=True)
RestructuredPath ==
    /\ pc = "cased"
    /\ mp3_path' = get_mp3_path(NameOggPath, args.folder_path, args.restructure,
                                args.output_dir)
    /\ pc' = "restructured"
    /\ UNCHANGED <<text, folder, camel, args, installed, fs, dirs, initial,
                   exit_code, ended, interrupted, walks, scan, task, queue, collected,
                   results, pbar, errors, converted_count, post, rescan>>

NextNames ==
    \/ CamelCase
    \/ RestructuredPath

NameSpec == InitNames /\ [][NextNames]_vars

(***************************************************************************)
(* The claims                                                              *)
(***************************************************************************)
InPlacePolicy == ~args.restructure /\ args.output_dir = NoDir

\* some source file under the root has no file at its computed output path
MissingOutput ==
    /\ IsDir(args.folder_path)
    /\ \E f \in SeqToSet(find_files(args.folder_path, Ogg)) :
          ~PathExists(get_mp3_path(f, args.folder_path, args.restructure,
                                   args.output_dir))

\* the step is a call of perform_post_check
PostCheckStep == ~post.ran /\ post'.ran

\* C1: whatever the tree and the output policy, when some .ogg file under the
\* root has no file at get_mp3_path of it, perform_post_check with
\* delete_originals=True deletes no file.
C1_NoDeletionWhileOutputMissing ==
    [][(PostCheckStep /\ args.delete /\ MissingOutput) => fs \subseteq fs']_vars

\* C2: under the in-place policy the candidates identify_files_for_conversion
\* returns by the stem-set shortcut are the source files whose get_mp3_path
\* does not exist, in the same order, for every tree.
C2_StemShortcutEqualsPathPolicy ==
    (pc = "converting" /\ fs = initial.fs /\ InPlacePolicy) =>
        scan.files = ExpectedPathCandidates(args.folder_path, Ogg, FALSE, NoDir)

\* C3: once every candidate of identify_files_for_conversion is converted
\* successfully and nothing else has changed, the next call with the same policy
\* returns no candidate and skipped_count = total_source_count.
C3_Convergence ==
    pc = "rediscovered" =>
        /\ rescan.files = <<>>
        /\ rescan.skipped = rescan.total
        /\ rescan.total = scan.total

\* C3 witness: three candidates were converted into /r/RS and the tree was
\* scanned again.
C3_Witness ==
    /\ pc = "rediscovered"
    /\ args.restructure
    /\ NumCandidates = 3

\* the batch ran without an interrupt and its pool has drained
BatchDrained == pc \in {"summary", "postcheck"} /\ NumCandidates > 0

\* C4: in an uninterrupted batch, once the pool has drained, the collected
\* results hold exactly one outcome per submitted candidate, whether its task
\* returned True, returned False or raised.
C4_OneOutcomePerCandidate ==
    BatchDrained => Len(results) = NumCandidates

\* C5: with --threads N, N > 0, never more than N conversions run at once.
C5_BoundedConcurrency ==
    (args.threads # <<>> /\ args.threads[1] > 0) =>
        Cardinality(Running) <= args.threads[1]

\* C5 witness: two conversions run under --threads 2 while a third candidate
\* waits in the queue.
C5_Witness ==
    /\ args.threads = <<2>>
    /\ Cardinality(Running) = 2
    /\ queue # <<>>

\* C6: after SIGINT has arrived during the conversion phase, no task that had
\* not begun running starts: its encoder is never invoked.
C6_NoStartAfterInterrupt ==
    [][interrupted =>
          \A k \in DOMAIN task :
              task[k] \in {"new", "queued"} => task'[k] \in {"new", "queued"}]_vars

\* the statuses the run ends with, by the way it ended
SetupErrors == {"usage", "output_dir", "dependency", "error"}

\* C7 (as claimed): an interrupted run exits 130, a completed batch exits 0
\* even with failed conversions, and every batch-level setup error exits 1.
C7_SetupErrorsExitOne ==
    pc = "exited" =>
        /\ interrupted => exit_code = 130
        /\ ended = "returned" => exit_code = 0
        /\ ended \in SetupErrors => exit_code = 1

\* C7 (amended): an interrupted run exits 130; a completed batch exits 0 even
\* with failed conversions; a missing dependency, an invalid root directory and
\* an invalid thread count exit 1; the errors reported through the argument
\* parser (--delete without --post-check, an unusable output directory) exit 2;
\* so status 0 is never the status of an interrupted run.
C7_ExitStatus ==
    pc = "exited" =>
        /\ interrupted => exit_code = 130
        /\ ended = "returned" => exit_code = 0
        /\ ended \in {"dependency", "error"} => exit_code = 1
        /\ ended \in {"usage", "output_dir"} => exit_code = 2
        /\ ended \in {"returned", "interrupt"} \cup SetupErrors
        /\ interrupted <=> ended = "interrupt"
        /\ exit_code \in {0, 130} => (exit_code = 130 <=> interrupted)

\* C7 witness: the run was interrupted when every candidate was already
\* converted, with a failed and a successful conversion among them.
C7_Witness ==
    /\ pc = "exited"
    /\ interrupted
    /\ NumCandidates = 3
    /\ Finished = 1..NumCandidates
    /\ \E k \in Finished : task[k] = "converted"
    /\ \E k \in Finished : task[k] = "convert_error"

CountOf(res, b) == Cardinality({i \in DOMAIN res : res[i] = b})

CollectedWith(events) == {k \in collected : task[k] \in events}

\* the conversion phase can take a step other than an interrupt: a task can
\* start (the guard of StartTask), one runs and will end (FinishTask), or a
\* finished one waits to be collected (CollectOne)
BatchCanStep ==
    \/ queue # <<>> /\ WorkerAvailable
    \/ Running # {}
    \/ Finished \ collected # {}

C9_DeleteRequiresPostCheck ==
    (args.delete /\ ~args.post_check) =>
        /\ pc \in {"parse", "exited"}
        /\ fs = initial.fs
        /\ dirs = initial.dirs
        /\ walks = 0
        /\ task = <<>>
        /\ ~post.ran
        /\ pc = "exited" => exit_code # 0
        /\ (pc = "exited" /\ ~interrupted) =>
              (ended = "usage" /\ exit_code = ArgparseErrorStatus)

\* C9 witness: the run was rejected with sources to convert and an output
\* directory to create, and the output directory does not exist.
C9_Witness ==
    /\ pc = "exited"
    /\ ended = "usage"
    /\ args.delete
    /\ ~args.post_check
    /\ args.folder_path = RootPath
    /\ args.output_dir = OutDir
    /\ ~IsDir(OutDir)
    /\ fs = Sources

\* C10: a --bitrate value that does not match ^\d+k$ is rejected as a usage
\* error before any I/O: the directory is not scanned, no encoder is invoked,
\* the exit status is not 0.
C10_InvalidBitrateRejected ==
    ~validate_bitrate(args.bitrate) =>
        /\ walks = 0
        /\ \A k \in DOMAIN task : task[k] \in {"new", "queued"}
        /\ pc = "exited" => exit_code # 0

\* C11: with --dry-run no encoder is invoked for any candidate and no output
\* file or directory is created; every candidate is reported as a success.
C11_DryRunConvertsNothing ==
    args.dry_run =>
        /\ \A k \in DOMAIN task : task[k] \in {"new", "queued"}
        /\ fs \subseteq initial.fs
        /\ (pc = "exited" /\ ended = "returned" /\ NumCandidates > 0) =>
              converted_count = NumCandidates

\* C12: when ffmpeg or ffprobe is missing the run aborts with status 1 before
\* the root is scanned, before any conversion starts and before any file or
\* directory is created, modified or deleted.
C12_MissingDependencyTouchesNothing ==
    check_dependencies # {} =>
        /\ walks = 0
        /\ task = <<>>
        /\ ~post.ran
        /\ fs = initial.fs
        /\ (pc = "exited" /\ ended = "dependency") =>
              /\ exit_code = 1
              /\ dirs = initial.dirs

\* the step is a call of perform_post_check in which the deletion proceeds
DeletionStep ==
    /\ PostCheckStep
    /\ args.delete
    /\ post'.unconverted = <<>>
    /\ post'.ogg_files # <<>>

\* C13: when the deletion proceeds, perform_post_check attempts os.remove on
\* every .ogg file it found, also after an os.remove that failed; a file is gone
\* exactly when its os.remove succeeded, and the reported count is the number
\* of files removed, out of all the files found.
C13_BestEffortDeletion ==
    [][DeletionStep =>
          /\ post'.ogg_files = find_files(args.folder_path, Ogg)
          /\ post'.attempted = post'.ogg_files
          /\ post'.removed \cup post'.failed = SeqToSet(post'.ogg_files)
          /\ post'.removed \cap post'.failed = {}
          /\ fs' = fs \ post'.removed
          /\ post'.deleted_count = Cardinality(fs \ fs')]_vars

\* C13 witness: a deletion in which an os.remove failed and a later one
\* succeeded.
C13_Witness ==
    /\ post.ran
    /\ args.delete
    /\ post.unconverted = <<>>
    /\ \E i, j \in DOMAIN post.attempted :
          /\ i < j
          /\ post.attempted[i] \in post.failed
          /\ post.attempted[j] \in post.removed /\ post.attempted[j] \notin fs

\* the word-normalization rule, stated on the positions of the text: a word is
\* a maximal run of ASCII letters and digits
WordStarts(t) ==
    {i \in DOMAIN t : IsAlnum(t[i]) /\ (i = 1 \/ ~IsAlnum(t[i - 1]))}

WordEnd(t, i) ==
    CHOOSE j \in i..Len(t) :
        /\ \A k \in i..j : IsAlnum(t[k])
        /\ j = Len(t) \/ ~IsAlnum(t[j + 1])

\* the words of the text, in their order
RuleWords(t) ==
    LET starts == WordStarts(t)
        nth(k) == CHOOSE i \in starts : Cardinality({j \in starts : j < i}) = k - 1
    IN  [k \in 1..Cardinality(starts) |-> SubSeq(t, nth(k), WordEnd(t, nth(k)))]

\* a later word: its first character in upper case, the others in lower case
RuleCapitalized(w) ==
    [i \in DOMAIN w |-> IF i = 1 THEN UpperChar(w[i]) ELSE LowerChar(w[i])]

RECURSIVE RuleJoin(_, _)
RuleJoin(words, k) ==
    IF k > Len(words) THEN <<>>
    ELSE (IF k = 1 THEN [i \in DOMAIN words[k] |-> LowerChar(words[k][i])]
          ELSE RuleCapitalized(words[k])) \o RuleJoin(words, k + 1)

RuleOutput(t) == RuleJoin(RuleWords(t), 1)

\* C14 (as claimed): under Restructure, /root/Album/Track 01.ogg with root
\* /root gives /root/RS/Album/Track01.mp3.
C14_ExamplePathAsClaimed ==
    (pc = "restructured" /\ folder = ExampleAlbum /\ text = ExampleTrack) =>
        mp3_path = ExampleRoot \o << <<"R", "S">>, ExampleAlbum, <<"T", "r", "a", "c", "k", "0", "1", ".", "m", "p", "3">> >>

\* C14 (amended): under Restructure the output path lies under <root>/RS/, its
\* directory segment is the source's directory normalized by the rule (left out
\* when that is empty), its file name is the normalized stem followed by .mp3;
\* /root/Album/Track 01.ogg gives /root/RS/album/track01.mp3.
C14_RestructuredPath ==
    pc = "restructured" =>
        /\ IsUnder(mp3_path, ExampleRoot \o << <<"R", "S">> >>)
        /\ Basename(mp3_path) = RuleOutput(Stem(NameOggPath)) \o <<".", "m", "p", "3">>
        /\ SubSeq(mp3_path, 3, Len(mp3_path) - 1)
              = (IF RuleOutput(folder) = <<>> THEN <<>> ELSE <<RuleOutput(folder)>>)
        /\ (folder = ExampleAlbum /\ text = ExampleTrack) =>
              mp3_path = ExampleRoot \o << <<"R", "S">>, <<"a", "l", "b", "u", "m">>, <<"t", "r", "a", "c", "k", "0", "1", ".", "m", "p", "3">> >>

\* C14 witness: the path of /root/Album/Track 01.ogg was computed.
C14_Witness ==
    /\ pc = "restructured"
    /\ folder = ExampleAlbum
    /\ text = ExampleTrack
    /\ Len(mp3_path) = 4

\* C15: to_camel_case gives the output of the word-normalization rule for
\* every input: the words are the maximal runs of ASCII letters and digits, the
\* first in lower case, the later ones capitalized, joined without separator;
\* no letter or digit gives the empty string; the two documented examples.
C15_WordNormalization ==
    pc \in {"cased", "restructured"} =>
        /\ camel = RuleOutput(text)
        /\ (\A i \in DOMAIN text : ~IsAlnum(text[i])) => camel = <<>>
        /\ text = ExampleSong => camel = <<"0", "1", "M", "y", "A", "w", "e", "s", "o", "m", "e", "S", "o", "n", "g">>
        /\ text = ExampleHello => camel = <<"h", "e", "l", "l", "o", "W", "o", "r", "l", "d">>

\* C15 witness: "01 - My Awesome Song" was normalized to "01MyAwesomeSong".
C15_Witness ==
    /\ pc = "cased"
    /\ text = ExampleSong
    /\ camel = <<"0", "1", "M", "y", "A", "w", "e", "s", "o", "m", "e", "S", "o", "n", "g">>

C17_UnconvertedByOutputPath ==
    [][PostCheckStep =>
          /\ post'.unconverted
                = ExpectedPathCandidates(args.folder_path, Ogg, args.restructure,
                                         args.output_dir)
          /\ post'.unconverted
                = identify_files_for_conversion(args.folder_path, Ogg, Mp3,
                                                args.restructure, args.output_dir).files]_vars

\* C18: the candidates of one batch have pairwise distinct output paths under
\* the active policy, so no two conversions that run at the same time in the
\* pool write to the same output file.
C18_NoSharedOutputPath ==
    \A i, j \in Running :
        i # j => ConverterMp3Path(scan.files[i]) # ConverterMp3Path(scan.files[j])

\* C19: the post-check starts only after every submitted conversion has ended:
\* whenever main() is about to call perform_post_check, or has called it, no
\* task is queued or running, and a file that existed at the start is missing
\* only once the post-check has run.
C19_PostCheckAfterPool ==
    /\ (pc = "postcheck" \/ post.ran) =>
          /\ queue = <<>>
          /\ Running = {}
          /\ \A k \in DOMAIN task : task[k] \in ConversionEvents
    /\ initial.fs \subseteq fs \/ post.ran

\* C19 witness: the post-check ran after a batch of three conversions and
\* deleted source files.
C19_Witness ==
    /\ post.ran
    /\ NumCandidates = 3
    /\ post.removed # {}
    /\ ~(initial.fs \subseteq fs)

\* C20: once an interrupt has arrived, the post-check is not run in that
\* invocation and no file that existed at the start is deleted, also with
\* --post-check --delete and every output in place.
C20_NoPostCheckAfterInterrupt ==
    interrupted =>
        /\ pc \in {"shutdown", "exited"}
        /\ ~post.ran
        /\ initial.fs \subseteq fs
        /\ pc = "exited" => ended = "interrupt"

\* C20 witness: a run with --post-check --delete was interrupted during the
\* conversion phase, before main() had collected every result; it has ended,
\* all three conversions succeeded and every source has its output.
C20_Witness ==
    /\ pc = "exited"
    /\ interrupted
    /\ args.post_check
    /\ args.delete
    /\ NumCandidates = 3
    /\ collected # 1..NumCandidates
    /\ \A k \in 1..NumCandidates : task[k] = "converted"
    /\ unconverted_files(args.folder_path, args.restructure, args.output_dir) = <<>>

\* C21: no step of a run but perform_post_check with delete_originals=True
\* removes a file (discovery and conversion only add files and directories);
\* that call removes only .ogg files which its own scan finds under the root,
\* and with delete_originals=False the post-check leaves the files as they are;
\* no directory is ever removed.
C21_OnlyPostCheckRemoves ==
    [][/\ dirs \subseteq dirs'
       /\ ~(fs \subseteq fs') => (PostCheckStep /\ args.delete)
       /\ PostCheckStep =>
             /\ fs' \subseteq fs
             /\ (fs \ fs') \subseteq SeqToSet(find_files(args.folder_path, Ogg))
             /\ \A f \in fs \ fs' :
                   /\ IsUnder(f, args.folder_path)
                   /\ EndsWith(StrLower(Basename(f)), <<".", "o", "g", "g">>)
             /\ ~args.delete => fs' = fs]_vars

\* C21 witness: a run under Restructure wrote new outputs, then its post-check
\* deleted a source file and failed to delete another.
C21_Witness ==
    /\ post.ran
    /\ args.delete
    /\ args.restructure
    /\ fs \ initial.fs # {}
    /\ post.removed # {}
    /\ post.failed # {}
    /\ post.removed \cap fs = {}
    /\ post.failed \subseteq fs

====
